---- MODULE Spec2Model ----
(***************************************************************************)
(* MTP responder of esp32s3-tusb-mtp: the handle table, the session,       *)
(* the object lifecycle and the chunked transfer engine of                 *)
(* main/src/monolith/usb_mtp_impl.c.h, over a LittleFS volume mounted at   *)
(* /littlefs.  The TinyUSB MTP class driver and the filesystem are the     *)
(* environment; they are modelled by what the handlers ask of them.        *)
(***************************************************************************)
EXTENDS Integers, Sequences, FiniteSets, TLC

(* ---------------- bounds of the model ---------------- *)
\* number of slots of the handle table (32 in the source, scaled down)
MTP_HANDLE_TABLE_SIZE == 3
\* bytes of one endpoint buffer (512 in the TinyUSB configuration, scaled down)
CFG_TUD_MTP_EP_BUFSIZE == 3
\* sizeof(mtp_container_header_t) (12 in TinyUSB, scaled down)
HeaderSize == 1
\* largest object size a host declares in SendObjectInfo
MaxSize == 3
\* capacity of the LittleFS partition in bytes
FsCapacity == 4
\* cap of the handle allocator counter
MaxHandle == 4
\* sessions a host opens between two boots of the device
MaxSessions == 2
\* values an uninitialised byte of the reply buffer may hold
Garbage == {0, 255}

(* ---------------- program constants ---------------- *)
\* uint32_t is modelled 30 bits wide: the model checker's integers are 32-bit signed
WordModulus == 1073741824
\* UINT_MAX
FS_INVALID_HANDLE == 1073741823
\* 0xFFFFFFFF, the "root" and "all storages" sentinel of the protocol
ALL_ONES == 1073741823
SUPPORTED_STORAGE_ID == 65537

MTP_RESP_UNDEFINED == 8192
MTP_RESP_OK == 8193
MTP_RESP_GENERAL_ERROR == 8194
MTP_RESP_SESSION_NOT_OPEN == 8195
MTP_RESP_OPERATION_NOT_SUPPORTED == 8197
MTP_RESP_INVALID_STORAGE_ID == 8200
MTP_RESP_INVALID_OBJECT_HANDLE == 8201
MTP_RESP_STORE_FULL == 8204
MTP_RESP_INVALID_PARENT_OBJECT == 8218
MTP_RESP_INVALID_PARAMETER == 8221
MTP_RESP_SESSION_ALREADY_OPEN == 8222

MTP_ASSOCIATION_UNDEFINED == 0
MTP_ASSOCIATION_GENERIC_FOLDER == 1

(* ---------------- the filesystem (environment) ---------------- *)
\* file and directory names the host and the volume use
Names == {"a", "b"}
\* a name no object of the volume has: what a read through a null entry yields
GarbageName == "?"

\* paths below /littlefs: <<>> is the mount point itself
Paths == {<<n>> : n \in Names} \cup {<<d, n>> : d \in Names, n \in Names}

NoNode == [kind |-> "none", data |-> <<>>]
DirNode == [kind |-> "dir", data |-> <<>>]
FileNode(bytes) == [kind |-> "file", data |-> bytes]

\* the bytes a host sends for an object of n bytes
HostData(n) == [i \in 1..n |-> i]

\* "/littlefs/" ++ parent ++ "/" ++ name, as the list of its non-empty components
PathOf(pname, name) ==
  (IF pname = "" THEN <<>> ELSE <<pname>>) \o (IF name = "" THEN <<>> ELSE <<name>>)

NodeAt(f, path) ==
  IF path = <<>> THEN DirNode
  ELSE IF path \in Paths
       THEN (IF Len(path) = 2 /\ f[<<path[1]>>].kind # "dir" THEN NoNode ELSE f[path])
       ELSE NoNode

\* stat(): 0 on success
StatOk(f, path) == NodeAt(f, path).kind # "none"
StatIsDir(f, path) == NodeAt(f, path).kind = "dir"
StatSize(f, path) == Len(NodeAt(f, path).data)

\* fopen(path, "w") succeeds when the path names no directory and its parent is one
CanOpenWrite(f, path) ==
  /\ path \in Paths
  /\ NodeAt(f, path).kind # "dir"
  /\ (Len(path) = 2 => f[<<path[1]>>].kind = "dir")

CanOpenRead(f, path) == NodeAt(f, path).kind = "file"

RECURSIVE SumSizes(_, _)
SumSizes(f, ps) ==
  IF ps = {} THEN 0
  ELSE LET p == CHOOSE q \in ps : TRUE
       IN (IF NodeAt(f, p).kind = "file" THEN Len(f[p].data) ELSE 0) + SumSizes(f, ps \ {p})

\* esp_littlefs_info(): bytes used on the volume
UsedBytes(f) == SumSizes(f, Paths)

\* the volumes a device may boot with: directories ds and empty files fl
MkFs(ds, fl) ==
  [p \in Paths |-> IF p \in ds THEN DirNode ELSE IF p \in fl THEN FileNode(<<>>) ELSE NoNode]

InitialFilesystems ==
  { MkFs(x[1], x[2]) :
      x \in { y \in (SUBSET {<<"a">>, <<"a", "b">>}) \X (SUBSET {<<"b">>, <<"a", "a">>}) :
                \A q \in y[1] \cup y[2] : Len(q) = 2 => <<q[1]>> \in y[1] } }

\* readdir() lists a directory in an order the filesystem chooses
Perms(S) == {s \in [1..Cardinality(S) -> S] : \A i, j \in 1..Cardinality(S) : s[i] = s[j] => i = j}
Listed(ord, S) == SelectSeq(ord, LAMBDA n : n \in S)
RootEntries(f) == {n \in Names : NodeAt(f, <<n>>).kind # "none"}
SubEntries(f, d) == {n \in Names : NodeAt(f, <<d, n>>).kind # "none"}

(* ---------------- state ---------------- *)
VARIABLES
  handles,            \* handle_table.handles
  handles_used,       \* handle_table.handles_used
  handle_self_inc,    \* the allocator counter
  is_session_opened,
  current_file,       \* the open stream, or NoFile
  current_handle,
  current_file_size,
  fs,                 \* the LittleFS volume
  leaked,             \* a stream was opened and dropped without fclose
  crashed,            \* the firmware dereferenced a null pointer
  phase,              \* transport: "idle", "data_in", "data_out"
  cmd,                \* the command in flight, NoCmd between transactions
  total_len,          \* length the data phase announces
  xferred,            \* total_xferred_bytes
  pending,            \* bytes queued to the host, not yet delivered
  host_rx,            \* object bytes the host has received in this GetObject
  host_tx,            \* object bytes the host sends in this SendObject
  ret,                \* value the last handler returned
  resp,               \* responses sent for the command in flight
  reply,              \* dataset of the last query
  alloc_log,          \* history: handles the allocator returned in this session
  given,              \* history: handles written to a table entry since the last session open
  rt,                 \* history: progress of a SendObjectInfo, SendObject, GetObject, GetObject sequence
  oob,                \* history: the walk wrote outside the table
  sessions            \* history: sessions opened since boot

vars == <<handles, handles_used, handle_self_inc, is_session_opened, current_file,
          current_handle, current_file_size, fs, leaked, crashed, phase, cmd,
          total_len, xferred, pending, host_rx, host_tx, ret, resp, reply,
          alloc_log, given, rt, oob, sessions>>

Slots == 0..(MTP_HANDLE_TABLE_SIZE - 1)
EmptyEntry == [handle |-> 0, parent_handle |-> 0, is_dir |-> FALSE, name |-> ""]
NoFile == [path |-> <<>>, mode |-> "none", pos |-> 0, gone |-> FALSE]

(* ---------------- handle table ---------------- *)
\* the free-slot search answering slot 0 whatever the table holds
fs_handletable_first_entry(t) == 0

Live(t, i) == t[i].name # ""

\* index of the first slot whose handle field equals h, or -1: the scan of
\* fs_get_handle_entry does not look at the name
EntryIndex(t, h) ==
  IF \E i \in Slots : t[i].handle = h
  THEN CHOOSE i \in Slots : t[i].handle = h /\ \A j \in Slots : t[j].handle = h => i <= j
  ELSE -1

fs_handle_valid(t, h) == \E i \in Slots : t[i].handle = h /\ Live(t, i)

fs_handletable_find_empty_entry(t) ==
  IF \E i \in Slots : ~Live(t, i)
  THEN CHOOSE i \in Slots : ~Live(t, i) /\ \A j \in Slots : ~Live(t, j) => i <= j
  ELSE FS_INVALID_HANDLE

\* fs_path_from_handle: ok is its return value; nullp tells that the parent
\* entry it reads the name of is a null pointer (then pname is GarbageName)
fs_path_from_handle(t, h) ==
  IF ~fs_handle_valid(t, h) THEN [ok |-> FALSE, nullp |-> FALSE, path |-> <<>>]
  ELSE LET e == t[EntryIndex(t, h)]
           pi == EntryIndex(t, e.parent_handle)
       IN IF e.parent_handle # 0
          THEN [ok |-> TRUE, nullp |-> (pi = -1),
                path |-> PathOf(IF pi = -1 THEN GarbageName ELSE t[pi].name, e.name)]
          ELSE [ok |-> TRUE, nullp |-> FALSE, path |-> PathOf("", e.name)]

\* fs_path_create: err is -ENOENT
fs_path_create(t, parent_handle, name) ==
  IF parent_handle # 0
  THEN LET pi == EntryIndex(t, parent_handle)
       IN IF pi = -1 THEN [err |-> TRUE, path |-> <<>>]
          ELSE [err |-> FALSE, path |-> PathOf(t[pi].name, name)]
  ELSE [err |-> FALSE, path |-> PathOf("", name)]

\* fs_stat_handle: retval 0 and the stat buffer, or a failure
fs_stat_handle(t, f, h) ==
  LET r == fs_path_from_handle(t, h)
  IN IF ~r.ok THEN [ok |-> FALSE, isdir |-> FALSE, size |-> 0, entry |-> -1]
     ELSE [ok |-> StatOk(f, r.path), isdir |-> StatIsDir(f, r.path),
           size |-> StatSize(f, r.path), entry |-> EntryIndex(t, h)]

fs_delete_handle(t, h) ==
  IF fs_handle_valid(t, h)
  THEN LET i == CHOOSE i \in Slots : t[i].handle = h /\ Live(t, i)
                    /\ \A j \in Slots : (t[j].handle = h /\ Live(t, j)) => i <= j
       IN [t EXCEPT ![i].name = ""]
  ELSE t

(* ---------------- the walk of session open ---------------- *)
\* one write of the walk: a slot outside the table is not written, it is recorded
WalkWrite(st, e) ==
  IF st.ii \in Slots THEN [st EXCEPT !.t[st.ii] = e] ELSE [st EXCEPT !.oob = TRUE]

\* the allocator with the increment applied after the value is taken
fs_assign_new_handle_postinc(inc) == [h |-> inc, inc |-> inc + 1]

\* return ++handle_self_inc: h is the value returned, inc the counter afterwards
fs_assign_new_handle(inc) == [h |-> inc + 1, inc |-> inc + 1]

\* the walk stopping one handle too late
WalkNextLate(st) ==
  LET r == fs_assign_new_handle(st.inc)
  IN [st EXCEPT !.inc = r.inc, !.ii = r.h, !.log = Append(st.log, r.h),
                !.stop = (r.h > MTP_HANDLE_TABLE_SIZE)]

\* ii = fs_assign_new_handle(), and the table-full test
WalkNext(st) ==
  LET r == fs_assign_new_handle(st.inc)
  IN [st EXCEPT !.inc = r.inc, !.ii = r.h, !.log = Append(st.log, r.h),
                !.stop = (r.h >= MTP_HANDLE_TABLE_SIZE)]

RECURSIVE WalkSub(_, _, _)
WalkSub(st, parent_handle, kids) ==
  IF kids = <<>> \/ st.stop THEN st
  ELSE LET k == Head(kids)
           old == IF st.ii \in Slots THEN st.t[st.ii] ELSE EmptyEntry
           st1 == WalkWrite(st, [old EXCEPT !.name = k.name,
                                            !.parent_handle = parent_handle,
                                            !.is_dir = k.is_dir])
       IN WalkSub(WalkNext(st1), parent_handle, Tail(kids))

RECURSIVE WalkRoot(_, _)
WalkRoot(st, items) ==
  IF items = <<>> \/ st.stop THEN st
  ELSE LET it == Head(items)
           old == IF st.ii \in Slots THEN st.t[st.ii] ELSE EmptyEntry
           st1 == WalkWrite(st, [old EXCEPT !.name = it.name, !.parent_handle = 0,
                                            !.handle = st.ii])
           st2 == [WalkNext(st1) EXCEPT !.given = st.given \cup {st.ii}]
       IN IF st2.stop THEN st2
          ELSE IF it.is_dir
               THEN LET parent_handle == st2.ii
                        st3 == [st2 EXCEPT !.t[parent_handle].is_dir = TRUE]
                    IN WalkRoot(WalkSub(st3, parent_handle, it.kids), Tail(items))
               ELSE WalkRoot(st2, Tail(items))

\* what readdir reports for the volume, root entries in order ro, children in order co
Listing(f, ro, co) ==
  LET Kid(d, n) == [name |-> n, is_dir |-> StatIsDir(f, <<d, n>>)]
      kidsOf(d) == LET ks == Listed(co, SubEntries(f, d))
                   IN [i \in 1..Len(ks) |-> Kid(d, ks[i])]
      rs == Listed(ro, RootEntries(f))
  IN [i \in 1..Len(rs) |->
        [name |-> rs[i], is_dir |-> StatIsDir(f, <<rs[i]>>),
         kids |-> IF StatIsDir(f, <<rs[i]>>) THEN kidsOf(rs[i]) ELSE <<>>]]

\* the table, the counter and handles_used (= ii) after the walk
fs_handletable_regenerate(t, inc, items) ==
  LET r == fs_assign_new_handle(inc)
      st0 == [t |-> t, inc |-> r.inc, ii |-> r.h, log |-> <<r.h>>,
              stop |-> FALSE, oob |-> FALSE, given |-> {}]
  IN WalkRoot(st0, items)

(* ---------------- initial state ---------------- *)
NoReply == [kind |-> "none", list |-> <<>>, parent |-> 0, folder |-> FALSE, size |-> 0, name |-> ""]
NoCmd == [code |-> "none", sid |-> 0, h |-> 0]
NoRt == [stage |-> 0, handle |-> 0, data |-> <<>>, first |-> <<>>]
Resp(code) == [code |-> code, parent |-> 0, handle |-> 0]

InitOn(volumes) ==
  /\ handles = [i \in Slots |-> EmptyEntry]
  /\ handles_used = 0
  /\ handle_self_inc = 0
  /\ is_session_opened = FALSE
  /\ current_file = NoFile
  /\ current_handle = FS_INVALID_HANDLE
  /\ current_file_size = 0
  /\ fs \in volumes
  /\ leaked = FALSE
  /\ crashed = FALSE
  /\ phase = "idle"
  /\ cmd = NoCmd
  /\ total_len = 0
  /\ xferred = 0
  /\ pending = <<>>
  /\ host_rx = <<>>
  /\ host_tx = <<>>
  /\ ret = 0
  /\ resp = <<>>
  /\ reply = NoReply
  /\ alloc_log = <<>>
  /\ given = {}
  /\ rt = NoRt
  /\ oob = FALSE
  /\ sessions = 0

(* ---------------- what the handlers ask of the transport ---------------- *)
tablevars == <<handles, handles_used, handle_self_inc>>
filevars == <<current_file, current_handle, current_file_size, leaked>>
sessvars == <<is_session_opened, alloc_log, given, oob, sessions>>

\* the handler neither sends nor receives data
NoData ==
  /\ phase' = "idle" /\ total_len' = 0 /\ xferred' = 0
  /\ pending' = <<>> /\ host_tx' = <<>>

\* the handler returns a response code and does nothing else
Reject(code) ==
  /\ ret' = code /\ NoData /\ reply' = NoReply
  /\ UNCHANGED <<tablevars, filevars, sessvars, fs, crashed>>

\* a read through a null pointer stops the firmware
Crash ==
  /\ crashed' = TRUE /\ ret' = 0 /\ NoData /\ reply' = NoReply
  /\ UNCHANGED <<tablevars, filevars, sessvars, fs>>

\* tud_mtp_data_send of a dataset that fits the first packet
SendDataset(d) ==
  /\ ret' = 0 /\ reply' = d
  /\ phase' = "data_in" /\ total_len' = HeaderSize /\ xferred' = 0
  /\ pending' = <<>> /\ host_tx' = <<>>

(* ---------------- session ---------------- *)
\* the session handler without its two tests of is_session_opened
fs_open_close_session_unchecked(c) ==
  IF c.code = "OpenSession"
  THEN \E ro \in Perms(Names), co \in Perms(Names) :
         LET st == fs_handletable_regenerate(handles, handle_self_inc, Listing(fs, ro, co))
         IN /\ sessions < MaxSessions
            /\ sessions' = sessions + 1
            /\ is_session_opened' = TRUE
            /\ handles' = st.t
            /\ handle_self_inc' = st.inc
            /\ handles_used' = st.ii
            /\ alloc_log' = st.log
            /\ given' = st.given
            /\ oob' = (oob \/ st.oob)
            /\ ret' = MTP_RESP_OK /\ NoData /\ reply' = NoReply
            /\ UNCHANGED <<filevars, fs, crashed>>
  ELSE /\ is_session_opened' = FALSE
       /\ handle_self_inc' = 0
       /\ alloc_log' = <<>>
       /\ ret' = MTP_RESP_OK /\ NoData /\ reply' = NoReply
       /\ UNCHANGED <<handles, handles_used, filevars, fs, crashed, given, oob, sessions>>

fs_open_close_session(c) ==
  IF c.code = "OpenSession"
  THEN IF is_session_opened
       THEN Reject(MTP_RESP_SESSION_ALREADY_OPEN)
       ELSE \E ro \in Perms(Names), co \in Perms(Names) :
              LET st == fs_handletable_regenerate(handles, handle_self_inc, Listing(fs, ro, co))
              IN /\ sessions < MaxSessions
                 /\ sessions' = sessions + 1
                 /\ is_session_opened' = TRUE
                 /\ handles' = st.t
                 /\ handle_self_inc' = st.inc
                 /\ handles_used' = st.ii
                 /\ alloc_log' = st.log
                 /\ given' = st.given
                 /\ oob' = (oob \/ st.oob)
                 /\ ret' = MTP_RESP_OK /\ NoData /\ reply' = NoReply
                 /\ UNCHANGED <<filevars, fs, crashed>>
  ELSE IF ~is_session_opened
       THEN Reject(MTP_RESP_SESSION_NOT_OPEN)
       ELSE /\ is_session_opened' = FALSE
            /\ handle_self_inc' = 0
            /\ alloc_log' = <<>>
            /\ ret' = MTP_RESP_OK /\ NoData /\ reply' = NoReply
            /\ UNCHANGED <<handles, handles_used, filevars, fs, crashed, given, oob, sessions>>

(* ---------------- enumeration ---------------- *)
\* the array fs_get_storage_ids sends
storage_ids == <<SUPPORTED_STORAGE_ID>>

fs_get_storage_ids(c) ==
  /\ SendDataset([NoReply EXCEPT !.kind = "storage_ids", !.list = storage_ids])
  /\ UNCHANGED <<tablevars, filevars, sessvars, fs, crashed>>

fs_get_storage_info(c) ==
  IF c.sid # SUPPORTED_STORAGE_ID
  THEN Reject(-1)
  ELSE /\ SendDataset([NoReply EXCEPT !.kind = "storage_info",
                         !.list = <<FsCapacity, FsCapacity - UsedBytes(fs),
                                    MTP_HANDLE_TABLE_SIZE - handles_used>>])
       /\ UNCHANGED <<tablevars, filevars, sessvars, fs, crashed>>

\* the handles the loop of fs_get_object_handles collects, in slot order
RECURSIVE CollectHandles(_, _, _)
CollectHandles(t, parent, i) ==
  IF i >= MTP_HANDLE_TABLE_SIZE THEN <<>>
  ELSE (IF t[i].parent_handle = parent /\ Live(t, i) THEN <<t[i].handle>> ELSE <<>>)
       \o CollectHandles(t, parent, i + 1)

ObjectHandles(t, parent_param) ==
  CollectHandles(t, IF parent_param = ALL_ONES THEN 0 ELSE parent_param, 0)

fs_get_object_handles(c) ==
  IF c.sid # ALL_ONES /\ c.sid # SUPPORTED_STORAGE_ID
  THEN Reject(MTP_RESP_INVALID_STORAGE_ID)
  ELSE /\ SendDataset([NoReply EXCEPT !.kind = "handles", !.list = ObjectHandles(handles, c.h)])
       /\ UNCHANGED <<tablevars, filevars, sessvars, fs, crashed>>

\* the dataset fs_get_object_info sends for a handle it can stat
ObjectInfo(t, f, h) ==
  LET r == fs_stat_handle(t, f, h)
      e == t[r.entry]
  IN [NoReply EXCEPT !.kind = "info", !.parent = e.parent_handle, !.folder = e.is_dir,
                     !.size = r.size, !.name = e.name]

\* what fs_get_object_info returns for a handle: 0 when it sends the dataset
ObjectInfoCode(t, f, h) ==
  IF ~fs_stat_handle(t, f, h).ok THEN MTP_RESP_INVALID_OBJECT_HANDLE ELSE 0

fs_get_object_info(c) ==
  LET p == fs_path_from_handle(handles, c.h)
  IN \/ /\ p.ok /\ p.nullp
        /\ Crash
     \/ IF ObjectInfoCode(handles, fs, c.h) # 0
        THEN Reject(ObjectInfoCode(handles, fs, c.h))
        ELSE /\ SendDataset(ObjectInfo(handles, fs, c.h))
             /\ UNCHANGED <<tablevars, filevars, sessvars, fs, crashed>>

(* ---------------- deletion ---------------- *)
\* unlink(): the stream that is open on the file loses it
Unlinked(st, path) == IF st.mode # "none" /\ st.path = path THEN [st EXCEPT !.gone = TRUE] ELSE st

fs_delete_object(c) ==
  LET p == fs_path_from_handle(handles, c.h)
      r == fs_stat_handle(handles, fs, c.h)
  IN IF ~is_session_opened THEN Reject(MTP_RESP_SESSION_NOT_OPEN)
     ELSE IF ~p.ok THEN Reject(MTP_RESP_INVALID_OBJECT_HANDLE)
     ELSE \/ /\ p.nullp
             /\ Crash
          \/ IF ~r.ok THEN Reject(MTP_RESP_GENERAL_ERROR)
             ELSE IF r.isdir THEN Reject(MTP_RESP_OPERATION_NOT_SUPPORTED)
             ELSE /\ fs' = [fs EXCEPT ![p.path] = NoNode]
                  /\ current_file' = Unlinked(current_file, p.path)
                  /\ handles' = fs_delete_handle(handles, c.h)
                  /\ handles_used' = handles_used - 1
                  /\ ret' = MTP_RESP_OK /\ NoData /\ reply' = NoReply
                  /\ UNCHANGED <<handle_self_inc, current_handle, current_file_size, leaked,
                                 sessvars, crashed>>

(* ---------------- streams ---------------- *)
Min(a, b) == IF a < b THEN a ELSE b
OpenStream(path, mode) == [path |-> path, mode |-> mode, pos |-> 0, gone |-> FALSE]
IsOpen(st) == st.mode # "none"

\* the bytes of the file a stream can still read from position pos
Readable(st, f, pos) ==
  IF st.mode = "r" /\ ~st.gone /\ NodeAt(f, st.path).kind = "file"
  THEN SubSeq(f[st.path].data, pos + 1, Len(f[st.path].data))
  ELSE <<>>

\* fread(buf, 1, want, stream): the bytes read
FRead(st, f, want) == SubSeq(Readable(st, f, st.pos), 1, Min(want, Len(Readable(st, f, st.pos))))

\* fwrite(payload, 1, n, stream): the volume afterwards
FWrite(st, f, bytes) ==
  IF st.mode = "w" /\ ~st.gone /\ NodeAt(f, st.path).kind = "file"
  THEN [f EXCEPT ![st.path] = FileNode(f[st.path].data \o bytes)]
  ELSE f

\* fs_close_handle leaving the stream and the handle as they are
fs_close_handle_keep(cf, ch, handle, file) == [file |-> cf, handle |-> ch]

\* fs_close_handle(handle, file) on the globals cf, ch
fs_close_handle(cf, ch, handle, file) ==
  IF cf # file \/ ch # handle
  THEN [file |-> cf, handle |-> ch]
  ELSE [file |-> NoFile, handle |-> FS_INVALID_HANDLE]

(* ---------------- outbound transfer ---------------- *)
\* the body of fs_get_object once fs_open_handle has returned the stream f of size sz
GetObjectPhase(c, ph, xf, f, sz, lk) ==
  IF ph = "command"
  THEN LET want == Min(CFG_TUD_MTP_EP_BUFSIZE, sz)
           got == FRead(f, fs, want)
       IN \E junk \in [1..(want - Len(got)) -> Garbage] :
            LET first_time_buffer == got \o junk
            IN /\ pending' = SubSeq(first_time_buffer, 1, Min(sz, CFG_TUD_MTP_EP_BUFSIZE - HeaderSize))
               /\ current_file' = [f EXCEPT !.pos = f.pos + Len(got)]
               /\ current_handle' = c.h
               /\ current_file_size' = sz
               /\ leaked' = lk
               /\ ret' = 0 /\ reply' = NoReply
               /\ phase' = "data_in" /\ total_len' = HeaderSize + sz /\ xferred' = 0 /\ host_tx' = <<>>
               /\ UNCHANGED <<tablevars, sessvars, fs, crashed>>
  ELSE LET offset == xf - HeaderSize
           xact_len == Min((sz - offset) % WordModulus, CFG_TUD_MTP_EP_BUFSIZE)
           avail == Readable(f, fs, offset)
           done == offset + xact_len >= sz
           cl == fs_close_handle(f, c.h, c.h, f)
       IN IF xact_len > 0 /\ Len(avail) < xact_len
          THEN \* fread keeps returning 0: the loop never ends
               /\ crashed' = TRUE
               /\ current_file' = f /\ current_handle' = c.h /\ current_file_size' = sz
               /\ leaked' = lk
               /\ ret' = 0 /\ reply' = NoReply /\ NoData
               /\ UNCHANGED <<tablevars, sessvars, fs>>
          ELSE /\ pending' = SubSeq(avail, 1, xact_len)
               /\ current_file' = IF done THEN cl.file
                                  ELSE IF xact_len > 0 THEN [f EXCEPT !.pos = offset + xact_len] ELSE f
               /\ current_handle' = IF done THEN cl.handle ELSE c.h
               /\ current_file_size' = sz
               /\ leaked' = lk
               /\ ret' = 0 /\ reply' = NoReply
               /\ phase' = "data_in" /\ total_len' = total_len /\ xferred' = xf /\ host_tx' = <<>>
               /\ UNCHANGED <<tablevars, sessvars, fs, crashed>>

\* fs_get_object, with fs_open_handle(&handle_table, obj_handle, "r") inlined
fs_get_object(c, ph, xf) ==
  LET p == fs_path_from_handle(handles, c.h)
  IN IF IsOpen(current_file) /\ current_handle = c.h
     THEN GetObjectPhase(c, ph, xf, current_file, current_file_size, leaked)
     ELSE IF ~p.ok THEN Reject(MTP_RESP_INVALID_OBJECT_HANDLE)
     ELSE \/ /\ p.nullp
             /\ Crash
          \/ IF CanOpenRead(fs, p.path)
             THEN GetObjectPhase(c, ph, xf, OpenStream(p.path, "r"), StatSize(fs, p.path),
                                 leaked \/ IsOpen(current_file))
             ELSE \* fopen returned a null pointer, which fseek and ftell then use
                  \/ Crash
                  \/ \E g \in 0..MaxSize :
                       /\ current_file' = NoFile
                       /\ current_handle' = c.h
                       /\ current_file_size' = g
                       /\ leaked' = (leaked \/ IsOpen(current_file))
                       /\ ret' = MTP_RESP_INVALID_OBJECT_HANDLE /\ reply' = NoReply /\ NoData
                       /\ UNCHANGED <<tablevars, sessvars, fs, crashed>>

(* ---------------- object creation ---------------- *)
\* the admission test without the free-space comparison
fs_can_create_file_slots_only(used, f, size) == used # MTP_HANDLE_TABLE_SIZE

fs_can_create_file(used, f, size) ==
  /\ used # MTP_HANDLE_TABLE_SIZE
  /\ ~(FsCapacity - UsedBytes(f) < size)

\* fs_create_file then current_file_size = size, as fs_send_object_info runs them
fs_create_file(parent_handle, name, size) ==
  LET pc == fs_path_create(handles, parent_handle, name)
      handle_slot == fs_handletable_find_empty_entry(handles)
      r == fs_assign_new_handle(handle_self_inc)
  IN /\ current_file_size' = size
     /\ ret' = 0 /\ reply' = NoReply /\ NoData
     /\ UNCHANGED <<is_session_opened, oob, sessions, crashed>>
     /\ IF pc.err \/ handle_slot = FS_INVALID_HANDLE
        THEN UNCHANGED <<tablevars, current_file, current_handle, leaked, fs, alloc_log, given>>
        ELSE /\ handle_self_inc < MaxHandle
             /\ handle_self_inc' = r.inc
             /\ alloc_log' = Append(alloc_log, r.h)
             /\ leaked' = (leaked \/ IsOpen(current_file))
             /\ IF ~CanOpenWrite(fs, pc.path)
                THEN /\ current_file' = NoFile
                     /\ UNCHANGED <<handles, handles_used, current_handle, fs, given>>
                ELSE /\ current_file' = OpenStream(pc.path, "w")
                     /\ fs' = [fs EXCEPT ![pc.path] = FileNode(<<>>)]
                     /\ handles' = [handles EXCEPT ![handle_slot] =
                                      [@ EXCEPT !.parent_handle = parent_handle,
                                                !.handle = r.h, !.name = name]]
                     /\ current_handle' = r.h
                     /\ handles_used' = handles_used + 1
                     /\ given' = given \cup {r.h}

\* mkdir(dir_path, 0777): fails, and changes nothing, when the name is in use
MkDir(f, path) == IF path \in Paths /\ NodeAt(f, path).kind = "none" THEN [f EXCEPT ![path] = DirNode] ELSE f

fs_send_object_info(c, ph, d) ==
  IF ~is_session_opened THEN Reject(MTP_RESP_SESSION_NOT_OPEN)
  ELSE IF c.sid # ALL_ONES /\ c.sid # SUPPORTED_STORAGE_ID THEN Reject(MTP_RESP_INVALID_STORAGE_ID)
  ELSE IF ph = "command"
  THEN /\ ret' = 0 /\ reply' = NoReply
       /\ phase' = "data_out" /\ total_len' = HeaderSize /\ xferred' = 0
       /\ pending' = <<>> /\ host_tx' = <<>>
       /\ UNCHANGED <<tablevars, filevars, sessvars, fs, crashed>>
  ELSE IF d.storage_id # 0 /\ d.storage_id # SUPPORTED_STORAGE_ID
  THEN Reject(MTP_RESP_INVALID_STORAGE_ID)
  ELSE LET parent_handle == IF d.parent_object = ALL_ONES THEN 0 ELSE d.parent_object
           p == fs_path_from_handle(handles, parent_handle)
           r == fs_stat_handle(handles, fs, parent_handle)
       IN \/ /\ parent_handle # 0 /\ p.ok /\ p.nullp
             /\ Crash
          \/ IF parent_handle # 0 /\ (~r.ok \/ ~r.isdir)
             THEN Reject(MTP_RESP_INVALID_PARENT_OBJECT)
             ELSE IF d.association_type = MTP_ASSOCIATION_UNDEFINED
             THEN IF ~fs_can_create_file(handles_used, fs, d.size)
                  THEN Reject(MTP_RESP_STORE_FULL)
                  ELSE fs_create_file(parent_handle, d.name, d.size)
             ELSE IF d.association_type = MTP_ASSOCIATION_GENERIC_FOLDER
             THEN IF parent_handle # 0
                  THEN Reject(MTP_RESP_INVALID_PARENT_OBJECT)
                  ELSE /\ fs' = MkDir(fs, <<d.name>>)
                       /\ ret' = 0 /\ reply' = NoReply /\ NoData
                       /\ UNCHANGED <<tablevars, filevars, sessvars, crashed>>
             ELSE Reject(MTP_RESP_INVALID_PARAMETER)

(* ---------------- inbound transfer ---------------- *)
fs_send_object(c, ph, payload, xf) ==
  IF current_file = NoFile \/ current_handle = FS_INVALID_HANDLE
  THEN Reject(MTP_RESP_INVALID_OBJECT_HANDLE)
  ELSE IF ph = "command"
  THEN /\ ret' = 0 /\ reply' = NoReply
       /\ phase' = "data_out" /\ total_len' = HeaderSize + current_file_size /\ xferred' = 0
       /\ pending' = <<>> /\ host_tx' = HostData(current_file_size)
       /\ UNCHANGED <<tablevars, filevars, sessvars, fs, crashed>>
  ELSE LET more == xf - HeaderSize < current_file_size
           cl == fs_close_handle(current_file, current_handle, current_handle, current_file)
       IN /\ fs' = FWrite(current_file, fs, payload)
          /\ current_file' = IF more THEN [current_file EXCEPT !.pos = @ + Len(payload)] ELSE cl.file
          /\ current_handle' = IF more THEN current_handle ELSE cl.handle
          /\ ret' = 0 /\ reply' = NoReply
          /\ phase' = (IF more THEN "data_out" ELSE "idle")
          /\ total_len' = total_len /\ xferred' = xf
          /\ pending' = <<>> /\ host_tx' = host_tx
          /\ UNCHANGED <<tablevars, current_file_size, leaked, sessvars, crashed>>

(* ---------------- cancel request ---------------- *)
tud_mtp_request_cancel_cb ==
  /\ ~crashed
  /\ \/ /\ current_file = NoFile      \* fclose of a null pointer
        /\ crashed' = TRUE
        /\ UNCHANGED <<current_file, current_handle>>
     \/ LET cl == fs_close_handle(current_file, current_handle, current_handle, current_file)
        IN /\ current_file' = cl.file
           /\ current_handle' = cl.handle
           /\ UNCHANGED crashed
  /\ NoData
  /\ host_rx' = <<>> /\ resp' = <<>> /\ rt' = NoRt
  /\ UNCHANGED <<tablevars, current_file_size, leaked, sessvars, fs, ret, reply>>
  /\ cmd' = NoCmd

(* ---------------- dispatcher ---------------- *)
\* the operation codes of fs_op_handler_dict that the model covers
HandledOps == {"OpenSession", "CloseSession", "GetStorageIDs", "GetStorageInfo",
               "GetObjectHandles", "GetObjectInfo", "GetObject", "DeleteObject",
               "SendObjectInfo", "SendObject"}

NoDataset == [storage_id |-> 0, parent_object |-> 0, association_type |-> 0, size |-> 0, name |-> ""]

\* handler(cb_data) of the entry of fs_op_handler_dict for c.code
Handler(c, ph, d, payload, xf) ==
  \/ c.code \in {"OpenSession", "CloseSession"} /\ fs_open_close_session(c)
  \/ c.code = "GetStorageIDs" /\ fs_get_storage_ids(c)
  \/ c.code = "GetStorageInfo" /\ fs_get_storage_info(c)
  \/ c.code = "GetObjectHandles" /\ fs_get_object_handles(c)
  \/ c.code = "GetObjectInfo" /\ fs_get_object_info(c)
  \/ c.code = "GetObject" /\ fs_get_object(c, ph, xf)
  \/ c.code = "DeleteObject" /\ fs_delete_object(c)
  \/ c.code = "SendObjectInfo" /\ fs_send_object_info(c, ph, d)
  \/ c.code = "SendObject" /\ fs_send_object(c, ph, payload, xf)

\* a dispatcher that sends a response whatever the handler returned
SentAlways(r) == <<Resp(r)>>

\* the response the dispatcher sends after a handler returned r
Sent(r) == IF r > MTP_RESP_UNDEFINED THEN <<Resp(r)>> ELSE <<>>

tud_mtp_command_received_cb(c) ==
  /\ phase = "idle" /\ ~crashed
  /\ host_rx' = <<>>
  /\ IF c.code \in HandledOps
     THEN /\ Handler(c, "command", NoDataset, <<>>, 0)
          /\ resp' = Sent(ret')
     ELSE /\ ret' = MTP_RESP_OPERATION_NOT_SUPPORTED
          /\ resp' = <<>>
          /\ NoData /\ reply' = NoReply
          /\ UNCHANGED <<tablevars, filevars, sessvars, fs, crashed>>
  /\ rt' = IF /\ ret' <= MTP_RESP_UNDEFINED /\ ~crashed'
              /\ \/ c.code = "SendObject" /\ rt.stage = 1
                 \/ c.code = "GetObject" /\ rt.stage \in {2, 3} /\ c.h = rt.handle
           THEN (IF rt.stage = 3 THEN [rt EXCEPT !.stage = 4, !.first = host_rx] ELSE rt)
           ELSE NoRt
  /\ cmd' = (IF phase' = "idle" THEN NoCmd ELSE c)

\* the final response of tud_mtp_data_complete_cb
tud_mtp_data_complete_cb(code, t, ch) ==
  IF code = "SendObjectInfo"
  THEN IF EntryIndex(t, ch) = -1
       THEN Resp(MTP_RESP_INVALID_OBJECT_HANDLE)
       ELSE [code |-> MTP_RESP_OK, parent |-> t[EntryIndex(t, ch)].parent_handle, handle |-> ch]
  ELSE Resp(MTP_RESP_OK)

(* ---------------- data phases ---------------- *)
\* the host has taken the packet the device queued
DataInDone ==
  /\ phase = "data_in" /\ ~crashed
  /\ LET n == Len(pending) + (IF xferred = 0 THEN HeaderSize ELSE 0)
         xf == xferred + n
     IN /\ host_rx' = (IF cmd.code = "GetObject" THEN host_rx \o pending ELSE host_rx)
        /\ IF n = 0 \/ xf >= total_len
           THEN /\ resp' = <<tud_mtp_data_complete_cb(cmd.code, handles, current_handle)>>
                /\ phase' = "idle" /\ xferred' = xf /\ pending' = <<>>
                /\ rt' = IF rt.stage \in {2, 4} /\ cmd.code = "GetObject"
                         THEN [rt EXCEPT !.stage = @ + 1] ELSE rt
                /\ UNCHANGED <<tablevars, filevars, sessvars, fs, crashed, total_len,
                               host_tx, ret, reply>>
           ELSE /\ Handler(cmd, "data", NoDataset, <<>>, xf)
                /\ resp' = Sent(ret')
                /\ rt' = IF ret' <= MTP_RESP_UNDEFINED /\ ~crashed' THEN rt ELSE NoRt
  /\ cmd' = (IF phase' = "idle" THEN NoCmd ELSE cmd)

\* the host has sent the next packet of its data phase
DataOutReceived(datasets) ==
  /\ phase = "data_out" /\ ~crashed
  /\ UNCHANGED host_rx
  /\ IF cmd.code = "SendObjectInfo"
     THEN \E d \in datasets :
            /\ Handler(cmd, "data", d, <<>>, HeaderSize)
            /\ resp' = Sent(ret') \o (IF crashed' THEN <<>>
                          ELSE <<tud_mtp_data_complete_cb(cmd.code, handles', current_handle')>>)
            /\ rt' = IF /\ ret' = 0 /\ ~crashed'
                        /\ d.parent_object \in {0, ALL_ONES}
                        /\ d.association_type = MTP_ASSOCIATION_UNDEFINED
                        /\ resp'[Len(resp')].code = MTP_RESP_OK
                     THEN [stage |-> 1, handle |-> resp'[Len(resp')].handle, data |-> <<>>,
                           first |-> <<>>]
                     ELSE NoRt
     ELSE LET n == Min(total_len - xferred, CFG_TUD_MTP_EP_BUFSIZE)
              first == xferred = 0
              off == IF first THEN 0 ELSE xferred - HeaderSize
              len == IF first THEN n - HeaderSize ELSE n
              xf == xferred + n
          IN /\ Handler(cmd, "data", NoDataset, SubSeq(host_tx, off + 1, off + len), xf)
             /\ resp' = Sent(ret') \o (IF xf >= total_len
                          THEN <<tud_mtp_data_complete_cb(cmd.code, handles', current_handle')>>
                          ELSE <<>>)
             /\ rt' = IF ret' # 0 THEN NoRt
                      ELSE IF xf >= total_len /\ rt.stage = 1
                           THEN [rt EXCEPT !.stage = 2, !.data = host_tx]
                           ELSE rt
  /\ cmd' = (IF phase' = "idle" THEN NoCmd ELSE cmd)

(* ---------------- the host ---------------- *)
HandleArgs == (0..MaxHandle) \cup {ALL_ONES}
StorageArgs == {SUPPORTED_STORAGE_ID, ALL_ONES, 2}
Cmd(k, s, x) == [code |-> k, sid |-> s, h |-> x]

Init == InitOn(InitialFilesystems)

\* a host that opens and closes sessions, creates empty objects and deletes objects
LifecycleCommands ==
  {Cmd(k, 0, 0) : k \in {"OpenSession", "CloseSession"}}
  \cup {Cmd("SendObjectInfo", SUPPORTED_STORAGE_ID, 0)}
  \cup {Cmd("DeleteObject", 0, x) : x \in 0..MaxHandle}

LifecycleDatasets ==
  [storage_id : {SUPPORTED_STORAGE_ID}, parent_object : HandleArgs,
   association_type : {MTP_ASSOCIATION_UNDEFINED, MTP_ASSOCIATION_GENERIC_FOLDER},
   size : {0, FsCapacity + 1}, name : Names]

Next ==
  \/ \E c \in LifecycleCommands : tud_mtp_command_received_cb(c)
  \/ DataOutReceived(LifecycleDatasets)

Spec == Init /\ [][Next]_vars

\* a host that writes objects into the root or a directory and reads objects back
TransferCommands ==
  {Cmd(k, 0, 0) : k \in {"OpenSession", "CloseSession", "SendObject"}}
  \cup {Cmd("SendObjectInfo", ALL_ONES, 0)}
  \cup {Cmd("GetObject", 0, x) : x \in 1..MaxHandle}

TransferDatasets ==
  [storage_id : {0}, parent_object : {ALL_ONES, 1},
   association_type : {MTP_ASSOCIATION_UNDEFINED},
   size : {1, MaxSize}, name : Names]

TransferInit == InitOn({MkFs({}, {}), MkFs({}, {<<"b">>}), MkFs({<<"a">>}, {})})

TransferNext ==
  \/ \E c \in TransferCommands : tud_mtp_command_received_cb(c)
  \/ DataInDone
  \/ DataOutReceived(TransferDatasets)

TransferSpec == TransferInit /\ [][TransferNext]_vars

\* a host that enumerates the storage, in and out of a session
QueryCommands ==
  {Cmd(k, 0, 0) : k \in {"OpenSession", "CloseSession", "GetStorageIDs", "GetNumObjects"}}
  \cup {Cmd("GetStorageInfo", s, 0) : s \in StorageArgs}
  \cup {Cmd("GetObjectHandles", s, x) : s \in StorageArgs, x \in HandleArgs}
  \cup {Cmd(k, 0, x) : k \in {"GetObjectInfo", "DeleteObject"}, x \in HandleArgs}

QueryNext ==
  \/ \E c \in QueryCommands : tud_mtp_command_received_cb(c)
  \/ DataInDone
  \/ tud_mtp_request_cancel_cb

QuerySpec == Init /\ [][QueryNext]_vars

\* a host that, within one session, writes objects of MaxSize bytes into the
\* root, reads and deletes objects, sends an operation that has no handler,
\* and cancels the transaction in flight
StreamCommands ==
  {Cmd(k, 0, 0) : k \in {"OpenSession", "SendObject", "GetNumObjects"}}
  \cup {Cmd("SendObjectInfo", ALL_ONES, 0)}
  \cup {Cmd(k, 0, x) : k \in {"GetObject", "DeleteObject"}, x \in 1..MaxHandle}

StreamDatasets ==
  [storage_id : {0}, parent_object : {ALL_ONES},
   association_type : {MTP_ASSOCIATION_UNDEFINED},
   size : {MaxSize}, name : Names]

StreamInit == InitOn({MkFs({}, {}), MkFs({}, {<<"b">>})})

StreamNext ==
  \/ \E c \in StreamCommands : tud_mtp_command_received_cb(c)
  \/ DataInDone
  \/ DataOutReceived(StreamDatasets)
  \/ tud_mtp_request_cancel_cb

StreamSpec == StreamInit /\ [][StreamNext]_vars

\* a host that creates empty objects in the root, sends their (empty) content
\* and deletes objects, over volumes with two root objects
CreateCommands ==
  {Cmd(k, 0, 0) : k \in {"OpenSession", "CloseSession", "SendObject"}}
  \cup {Cmd("SendObjectInfo", SUPPORTED_STORAGE_ID, 0)}
  \cup {Cmd("DeleteObject", 0, x) : x \in 1..MaxHandle}

CreateDatasets ==
  [storage_id : {SUPPORTED_STORAGE_ID}, parent_object : {ALL_ONES},
   association_type : {MTP_ASSOCIATION_UNDEFINED},
   size : {0}, name : Names]

CreateInit == InitOn({MkFs({}, {<<"a">>, <<"b">>}), MkFs({<<"a">>}, {<<"b">>})})

CreateNext ==
  \/ \E c \in CreateCommands : tud_mtp_command_received_cb(c)
  \/ DataOutReceived(CreateDatasets)

CreateSpec == CreateInit /\ [][CreateNext]_vars

(* ---------------- properties ---------------- *)
\* the step in which OpenSession succeeds
OpenSessionStep == ~is_session_opened /\ is_session_opened'

\* the step in which fs_delete_object handles DeleteObject(h)
DeleteObjectStep(h) ==
  phase = "idle" /\ ~crashed /\ fs_delete_object(Cmd("DeleteObject", 0, h))

\* the step in which fs_send_object_info handles the dataset d of the host
SendObjectInfoData(d) ==
  /\ phase = "data_out" /\ ~crashed /\ cmd.code = "SendObjectInfo"
  /\ fs_send_object_info(cmd, "data", d)

\* the handles the allocator returned, from its log
Allocated(log) == {log[i] : i \in 1..Len(log)}

\* the objects of the volume, one level below the root directories
Objects(f) == {p \in Paths : NodeAt(f, p).kind # "none"}
LiveSlots(t) == {i \in Slots : Live(t, i)}

\* the live entries that stand for the object at path p
EntriesOf(t, p) ==
  {i \in LiveSlots(t) :
     /\ t[i].name = p[Len(p)]
     /\ IF Len(p) = 1 THEN t[i].parent_handle = 0
        ELSE \E j \in LiveSlots(t) : /\ t[j].name = p[1] /\ t[j].parent_handle = 0
                                     /\ t[j].handle # 0 /\ t[i].parent_handle = t[j].handle}

TableReflects(t, f) ==
  /\ \A p \in Objects(f) : Cardinality(EntriesOf(t, p)) = 1
  /\ Cardinality(LiveSlots(t)) = Cardinality(Objects(f))
  /\ \A i, j \in LiveSlots(t) : t[i].handle # 0 /\ (i # j => t[i].handle # t[j].handle)

\* the parent of dataset d is the root, or a handle fs_send_object_info
\* resolves to a directory
ParentAccepted(t, f, d) ==
  \/ d.parent_object \in {0, ALL_ONES}
  \/ /\ fs_stat_handle(t, f, d.parent_object).ok
     /\ fs_stat_handle(t, f, d.parent_object).isdir
     /\ ~fs_path_from_handle(t, d.parent_object).nullp

\* the walk reaches every object before the table-full test stops it
WalkFits(f) == Cardinality(Objects(f)) + 1 < MTP_HANDLE_TABLE_SIZE

\* C1: within one open session every handle the allocator returned, in the
\* walk of session open and in every object creation, is non-zero and greater
\* than every handle it returned before, deletions included.
C1_HandlesStrictlyIncreasing ==
  \A i \in 1..Len(alloc_log) :
    alloc_log[i] # 0 /\ \A j \in 1..(i - 1) : alloc_log[j] < alloc_log[i]

\* the slot the walk filled with handle 1 was freed by a deletion and holds
\* the handle of the latest creation of the session
C1_Witness ==
  /\ is_session_opened /\ 1 \in given
  /\ Live(handles, 1) /\ handles[1].handle > 1
  /\ handles[1].handle = alloc_log[Len(alloc_log)]

\* C2: after a close and the next open, every handle issued before the close,
\* and not allocated again by the walk of the new session, is answered "invalid
\* object handle".
C2_OldHandlesInvalidAfterReopen ==
  [][OpenSessionStep =>
       \A h \in given \ Allocated(alloc_log') :
         ObjectInfoCode(handles', fs', h) = MTP_RESP_INVALID_OBJECT_HANDLE]_vars

\* C3: right after a successful open whose walk fits the table, the live
\* entries are exactly the objects of the volume one level deep: one live entry
\* per object under a handle of its own, a child's parent_handle being the
\* handle of its directory's entry, and no other live entry.
C3_TableReflectsListing ==
  [][(OpenSessionStep /\ WalkFits(fs)) => TableReflects(handles', fs')]_vars

\* C4: while no session is open no request resolves a handle: GetObjectInfo
\* sends no object information and GetObjectHandles lists no handle.
C4_ClosedSessionResolvesNothing ==
  ~is_session_opened =>
    /\ reply.kind # "info"
    /\ reply.kind = "handles" => reply.list = <<>>

\* C5: the bytes GetObject delivers for the handle SendObjectInfo returned are
\* the bytes SendObject wrote, in their order, whatever the size.
C5_RoundTrip == rt.stage = 3 => host_rx = rt.data

\* C6: once DeleteObject(H) is answered OK, GetObjectInfo(H) fails with
\* InvalidObjectHandle and no GetObjectHandles result holds H.
C6_DeletedHandleGone ==
  [][\A h \in 1..MaxHandle :
       (DeleteObjectStep(h) /\ ret' = MTP_RESP_OK) =>
         /\ ObjectInfoCode(handles', fs', h) = MTP_RESP_INVALID_OBJECT_HANDLE
         /\ \A p \in HandleArgs :
              \A k \in 1..Len(ObjectHandles(handles', p)) :
                ObjectHandles(handles', p)[k] # h]_vars

\* C7: SendObjectInfo for a plain file whose declared size exceeds
\* capacity - used, in the root or in a directory the table resolves, returns
\* StoreFull and leaves the entries and the count of the handle table, and the
\* filesystem, as they were.
C7_StoreFullChangesNothing ==
  [][\A d \in TransferDatasets :
       (/\ SendObjectInfoData(d) /\ ParentAccepted(handles, fs, d)
        /\ d.association_type = MTP_ASSOCIATION_UNDEFINED
        /\ d.size > FsCapacity - UsedBytes(fs)) =>
         /\ ret' = MTP_RESP_STORE_FULL
         /\ UNCHANGED <<handles, handles_used, fs>>]_vars

\* StoreFull was answered on a volume that holds data, with slots to spare
C7_Witness ==
  /\ ret = MTP_RESP_STORE_FULL
  /\ handles_used # MTP_HANDLE_TABLE_SIZE
  /\ UsedBytes(fs) > 0

\* C8: SendObjectInfo for a folder with a non-root parent returns
\* InvalidParentObject and changes neither the table nor the filesystem; with
\* the root as parent it leaves the table unchanged and makes the directory
\* (mkdir changes nothing where the name is in use).
C8_FolderCreation ==
  [][\A d \in LifecycleDatasets :
       (SendObjectInfoData(d) /\ d.association_type = MTP_ASSOCIATION_GENERIC_FOLDER) =>
         IF d.parent_object \notin {0, ALL_ONES}
         THEN /\ ret' = MTP_RESP_INVALID_PARENT_OBJECT
              /\ UNCHANGED <<handles, handles_used, fs>>
         ELSE /\ ret' = 0
              /\ UNCHANGED <<handles, handles_used>>
              /\ fs' = IF NodeAt(fs, <<d.name>>).kind = "none"
                       THEN [fs EXCEPT ![<<d.name>>] = DirNode]
                       ELSE fs]_vars

\* C9: DeleteObject on a handle whose table entry has is_dir set returns
\* OperationNotSupported and leaves the table and the filesystem untouched.
C9_DirectoryEntryNotDeleted ==
  [][\A h \in 1..MaxHandle :
       (/\ DeleteObjectStep(h) /\ is_session_opened
        /\ fs_handle_valid(handles, h)
        /\ handles[EntryIndex(handles, h)].is_dir) =>
         /\ ret' = MTP_RESP_OPERATION_NOT_SUPPORTED
         /\ UNCHANGED <<handles, fs>>]_vars

\* C10: when OpenSession succeeds on a volume without objects, GetStorageIDs
\* has exactly one id to send and GetObjectHandles of the root has none.
C10_EmptyStorageListsNothing ==
  [][(OpenSessionStep /\ Objects(fs) = {}) =>
       /\ Len(storage_ids) = 1
       /\ ObjectHandles(handles', ALL_ONES) = <<>>]_vars

\* the dispatcher handles OpenSession (k = "OpenSession") or CloseSession
SessionStep(k) == tud_mtp_command_received_cb(Cmd(k, 0, 0))

\* C11: OpenSession in an open session is answered SessionAlreadyOpen and
\* CloseSession in a closed one SessionNotOpen, and both leave the session
\* flag, the handle table and the allocator counter as they were; in the other
\* two cases the answer is OK and the session flag is toggled.
C11_SessionTwoStates ==
  [][\A k \in {"OpenSession", "CloseSession"} :
       SessionStep(k) =>
         IF (k = "OpenSession") = is_session_opened
         THEN /\ resp' = <<Resp(IF k = "OpenSession" THEN MTP_RESP_SESSION_ALREADY_OPEN
                                                     ELSE MTP_RESP_SESSION_NOT_OPEN)>>
              /\ UNCHANGED <<is_session_opened, handles, handles_used, handle_self_inc>>
         ELSE /\ resp' = <<Resp(MTP_RESP_OK)>>
              /\ is_session_opened' = ~is_session_opened]_vars

\* OpenSession was refused in the second session, over a table with entries
C11_Witness ==
  /\ ret = MTP_RESP_SESSION_ALREADY_OPEN /\ is_session_opened
  /\ sessions = MaxSessions /\ LiveSlots(handles) # {}

\* C12: in an open session every live entry with a non-zero parent_handle
\* names, by that handle, a live entry whose is_dir flag is set.
C12_ParentIsLiveDirectory ==
  is_session_opened =>
    \A i \in LiveSlots(handles) :
      handles[i].parent_handle # 0 =>
        \E j \in LiveSlots(handles) :
          handles[j].handle = handles[i].parent_handle /\ handles[j].is_dir

\* C13: in an open session handles_used is the number of live entries, so the
\* free object count of GetStorageInfo is the table size minus that number.
C13_CountIsLiveEntries ==
  is_session_opened => handles_used = Cardinality(LiveSlots(handles))

\* C14: the path of every live handle has at most two segments below the
\* storage root, and no live entry flagged as a directory has a parent.
C14_DepthAndNoNestedDirectory ==
  /\ \A i \in LiveSlots(handles) :
       Len(fs_path_from_handle(handles, handles[i].handle).path) <= 2
  /\ \A i \in LiveSlots(handles) : handles[i].is_dir => handles[i].parent_handle = 0

\* the same on a volume that has no directory inside a directory
C14_FlatVolume ==
  (\A p \in Paths : Len(p) = 2 => NodeAt(fs, p).kind # "dir") => C14_DepthAndNoNestedDirectory

\* C15: the responder never holds more than one open stream: no handler
\* replaces an open stream without closing it.
C15_NoStreamLeftOpen == ~leaked

\* the step in which fs_send_object_info, for the dataset d, calls fs_create_file
CreateFileData(d) ==
  /\ SendObjectInfoData(d) /\ is_session_opened
  /\ d.association_type = MTP_ASSOCIATION_UNDEFINED
  /\ ParentAccepted(handles, fs, d)
  /\ fs_can_create_file(handles_used, fs, d.size)

\* the path fs_create_file opens for the dataset d
CreatePath(t, d) ==
  fs_path_create(t, IF d.parent_object = ALL_ONES THEN 0 ELSE d.parent_object, d.name).path

\* C16: when fs_create_file cannot open the new file, no table entry is added
\* and handles_used keeps its value; when the table has no free slot, no
\* filesystem object is created (and the table is not changed either).
C16_FailedCreateKeepsPairing ==
  [][\A d \in CreateDatasets :
       CreateFileData(d) =>
         /\ (LiveSlots(handles) # Slots /\ ~CanOpenWrite(fs, CreatePath(handles, d)))
              => UNCHANGED <<handles, handles_used>>
         /\ LiveSlots(handles) = Slots => UNCHANGED <<handles, handles_used, fs>>]_vars

\* a creation found no free slot while handles_used told of one: the response
\* does not carry a newly allocated handle
C16_Witness ==
  /\ is_session_opened /\ LiveSlots(handles) = Slots
  /\ handles_used # MTP_HANDLE_TABLE_SIZE
  /\ ret = 0 /\ phase = "idle"
  /\ Len(resp) = 1 /\ resp[1].handle # handle_self_inc

\* C17: SendObjectInfo for a plain file, while no slot of the table is free,
\* returns StoreFull and changes neither the table nor the filesystem.
C17_FullTableStoreFull ==
  [][\A d \in CreateDatasets :
       (/\ SendObjectInfoData(d) /\ is_session_opened
        /\ d.association_type = MTP_ASSOCIATION_UNDEFINED
        /\ ParentAccepted(handles, fs, d)
        /\ LiveSlots(handles) = Slots) =>
         /\ ret' = MTP_RESP_STORE_FULL
         /\ UNCHANGED <<handles, handles_used, fs>>]_vars

\* C18: a cancel request that finds a stream open closes it and frees the
\* transfer slot (current_file, current_handle), and changes neither the handle
\* table nor the filesystem, the bytes already written included.
C18_CancelClosesStream ==
  [][(tud_mtp_request_cancel_cb /\ IsOpen(current_file)) =>
       /\ current_file' = NoFile
       /\ current_handle' = FS_INVALID_HANDLE
       /\ ~crashed'
       /\ UNCHANGED <<handles, handles_used, handle_self_inc, fs>>]_vars

\* an inbound transfer of MaxSize bytes was cancelled after its first packet:
\* the stream is closed, the file holds a part of the bytes and keeps its entry
C18_Witness ==
  /\ ~crashed /\ phase = "idle" /\ current_file = NoFile
  /\ current_handle = FS_INVALID_HANDLE /\ current_file_size = MaxSize
  /\ \E i \in LiveSlots(handles) :
       LET p == fs_path_from_handle(handles, handles[i].handle).path
       IN /\ NodeAt(fs, p).kind = "file"
          /\ Len(NodeAt(fs, p).data) \in 1..(MaxSize - 1)

\* C19: GetObject for a handle that no live entry holds is answered
\* InvalidObjectHandle without a data phase, and SendObject without a stream
\* that SendObjectInfo prepared is answered InvalidObjectHandle and writes
\* nothing.
C19_InvalidHandleNoTransfer ==
  [][/\ \A h \in 1..MaxHandle :
          (/\ tud_mtp_command_received_cb(Cmd("GetObject", 0, h))
           /\ ~fs_handle_valid(handles, h)) =>
            /\ resp' = <<Resp(MTP_RESP_INVALID_OBJECT_HANDLE)>>
            /\ phase' = "idle" /\ pending' = <<>>
     /\ (/\ tud_mtp_command_received_cb(Cmd("SendObject", 0, 0))
         /\ current_file.mode # "w") =>
            /\ resp' = <<Resp(MTP_RESP_INVALID_OBJECT_HANDLE)>>
            /\ phase' = "idle" /\ fs' = fs]_vars

\* C20: GetStorageInfo for a storage id other than the supported one is
\* answered with the InvalidStorageID response and no storage dataset; for the
\* supported id it sends the capacity and the free space the filesystem
\* reports at that moment.
C20_StorageInfoChecksId ==
  [][\A s \in StorageArgs :
       tud_mtp_command_received_cb(Cmd("GetStorageInfo", s, 0)) =>
         IF s # SUPPORTED_STORAGE_ID
         THEN /\ resp' = <<Resp(MTP_RESP_INVALID_STORAGE_ID)>>
              /\ phase' = "idle" /\ reply'.kind # "storage_info"
         ELSE /\ phase' = "data_in" /\ reply'.kind = "storage_info"
              /\ reply'.list[1] = FsCapacity
              /\ reply'.list[2] = FsCapacity - UsedBytes(fs)]_vars

\* DataInDone hands the transfer back to the handler: data remains to be sent
DataInMore ==
  LET n == Len(pending) + (IF xferred = 0 THEN HeaderSize ELSE 0)
  IN n # 0 /\ xferred + n < total_len

\* C21: an operation code without a handler gives OperationNotSupported and
\* runs no handler; after a handler ran, in the command phase or in a data
\* phase, the dispatcher sends a response in that invocation exactly when the
\* handler's return value is above MTP_RESP_UNDEFINED, and its code is that
\* return value (a response that follows it in a data-out step is the one of
\* the completion callback)
C21_DispatchResponse ==
  [][ /\ \A c \in StreamCommands :
           tud_mtp_command_received_cb(c) =>
             IF c.code \in HandledOps
             THEN \/ ret' > MTP_RESP_UNDEFINED /\ resp' = <<Resp(ret')>>
                  \/ ret' <= MTP_RESP_UNDEFINED /\ resp' = <<>>
             ELSE /\ ret' = MTP_RESP_OPERATION_NOT_SUPPORTED
                  /\ UNCHANGED <<handles, handles_used, handle_self_inc, is_session_opened,
                                 current_file, current_handle, current_file_size, fs,
                                 leaked, crashed, phase>>
      /\ (DataInDone /\ DataInMore) =>
             \/ ret' > MTP_RESP_UNDEFINED /\ resp' = <<Resp(ret')>>
             \/ ret' <= MTP_RESP_UNDEFINED /\ resp' = <<>>
      /\ DataOutReceived(StreamDatasets) =>
             \/ ret' > MTP_RESP_UNDEFINED /\ Len(resp') >= 1 /\ resp'[1] = Resp(ret')
             \/ /\ ret' <= MTP_RESP_UNDEFINED
                /\ Len(resp') <= 1
                /\ Len(resp') = 1 => phase' = "idle"
    ]_vars

\* an operation without a handler was answered inside a session with a stream open
C21_Witness ==
  /\ ret = MTP_RESP_OPERATION_NOT_SUPPORTED /\ resp = <<>>
  /\ is_session_opened /\ IsOpen(current_file) /\ phase = "idle"

\* the host has taken the last packet of a GetObject: the whole object is delivered
GetObjectDelivered ==
  DataInDone /\ cmd.code = "GetObject" /\ phase' = "idle" /\ ~crashed'

\* C22: when a GetObject has delivered the whole object, whatever its size, the
\* stream is closed and the slot released: there is no current file and the
\* current handle is the invalid handle
C22_DeliveredObjectIsClosed ==
  [][ GetObjectDelivered =>
        current_file' = NoFile /\ current_handle' = FS_INVALID_HANDLE ]_vars

\* the bytes of the object a GetObject(h) reads: those of the file its stream is on
StreamContent(h) ==
  LET p == IF IsOpen(current_file) /\ current_handle = h
           THEN current_file.path ELSE fs_path_from_handle(handles, h).path
  IN IF NodeAt(fs, p).kind = "file" THEN fs[p].data ELSE <<>>

\* the bytes of s at the positions a..b that s has
Slice(s, a, b) == IF a > Min(b, Len(s)) THEN <<>> ELSE SubSeq(s, a, Min(b, Len(s)))

\* C23: each data phase of a GetObject reads min(size - offset, buffer capacity)
\* bytes of the object at offset = bytes transferred - header size, the host
\* then holds exactly the bytes [0, offset), and with the first packet the
\* chunks of one GetObject cover [0, size) once: contiguous, without overlap
C23_ChunksCoverObject ==
  [][ /\ \A h \in 1..MaxHandle :
           (tud_mtp_command_received_cb(Cmd("GetObject", 0, h)) /\ phase' = "data_in") =>
              LET size == total_len' - HeaderSize
              IN pending' = Slice(StreamContent(h), 1, Min(size, CFG_TUD_MTP_EP_BUFSIZE - HeaderSize))
      /\ (DataInDone /\ DataInMore /\ cmd.code = "GetObject") =>
           LET size == total_len - HeaderSize
               offset == xferred + Len(pending) + (IF xferred = 0 THEN HeaderSize ELSE 0) - HeaderSize
               len == Min(size - offset, CFG_TUD_MTP_EP_BUFSIZE)
           IN /\ ~crashed'
              /\ Len(host_rx') = offset
              /\ pending' = Slice(StreamContent(cmd.h), offset + 1, offset + len)
      /\ GetObjectDelivered => Len(host_rx') = total_len - HeaderSize
    ]_vars

\* the bytes of the file the open stream is on
CurrentFileData(f) ==
  IF NodeAt(f, current_file.path).kind = "file" THEN f[current_file.path].data ELSE <<>>

\* C24: in each data phase of a SendObject the chunk received is appended to
\* the open stream; another reception is requested exactly when the bytes
\* received minus the header size are fewer than the expected size; otherwise
\* the stream is closed and the slot released, and the file then holds exactly
\* the expected number of bytes
C24_ReceiveUntilExpectedSize ==
  [][ (DataOutReceived(TransferDatasets) /\ cmd.code = "SendObject") =>
        LET n == Min(total_len - xferred, CFG_TUD_MTP_EP_BUFSIZE)
            off == IF xferred = 0 THEN 0 ELSE xferred - HeaderSize
            len == IF xferred = 0 THEN n - HeaderSize ELSE n
            more == xferred + n - HeaderSize < current_file_size
        IN /\ CurrentFileData(fs') = CurrentFileData(fs) \o Slice(host_tx, off + 1, off + len)
           /\ (phase' = "data_out") <=> more
           /\ ~more => /\ current_file' = NoFile /\ current_handle' = FS_INVALID_HANDLE
                       /\ Len(CurrentFileData(fs')) = current_file_size
    ]_vars

\* C25: the inbound transfer of an object of expected size zero takes a single
\* data phase: SendObject announces a data phase of the header alone, and in
\* that phase nothing is written, no further reception is requested, and the
\* stream is closed and the slot released
C25_EmptyObjectSinglePhase ==
  [][ /\ (tud_mtp_command_received_cb(Cmd("SendObject", 0, 0)) /\ phase' = "data_out"
          /\ current_file_size = 0) => total_len' = HeaderSize /\ host_tx' = <<>>
      /\ (DataOutReceived(CreateDatasets) /\ cmd.code = "SendObject" /\ current_file_size = 0) =>
           /\ xferred = 0
           /\ fs' = fs
           /\ phase' = "idle"
           /\ current_file' = NoFile /\ current_handle' = FS_INVALID_HANDLE
    ]_vars

\* the single data phase of an empty object has run on the stream SendObjectInfo opened
C25_Witness ==
  /\ phase = "idle" /\ ret = 0 /\ resp = <<Resp(MTP_RESP_OK)>> /\ ~crashed
  /\ total_len = HeaderSize /\ xferred = HeaderSize
  /\ current_file = NoFile /\ current_handle = FS_INVALID_HANDLE
  /\ current_file_size = 0 /\ handle_self_inc > 2

\* C26: the walk of OpenSession writes no slot at or beyond
\* MTP_HANDLE_TABLE_SIZE and takes no handle after the one that reaches the
\* capacity, whatever the volume holds and whatever the table and the counter
\* were when the session was opened
C26_WalkStaysInTable ==
  [][ OpenSessionStep =>
        /\ ~oob'
        /\ handle_self_inc' <= MTP_HANDLE_TABLE_SIZE
        /\ handles_used' = handle_self_inc'
        /\ \A i \in 1..Len(alloc_log') :
              alloc_log'[i] >= MTP_HANDLE_TABLE_SIZE => i = Len(alloc_log')
    ]_vars

\* the walk stopped on a full table over a volume with more objects than slots
C26_Witness ==
  /\ is_session_opened /\ ~oob
  /\ handle_self_inc = MTP_HANDLE_TABLE_SIZE /\ handles_used = MTP_HANDLE_TABLE_SIZE
  /\ Cardinality(Objects(fs)) > MTP_HANDLE_TABLE_SIZE
  /\ sessions = MaxSessions

\* the live entries that carry the handle h
LiveWithHandle(t, h) == {i \in LiveSlots(t) : t[i].handle = h}

\* C27: fs_path_from_handle fails for every handle that no live entry carries;
\* for handle 0 it gives the storage root; for a live top-level entry it gives
\* root/name, and for a live second-level entry root/parent.name/name, where
\* parent is the live entry whose handle is the entry's parent_handle (stated
\* of the table of an open session)
C27_ResolvePath ==
  is_session_opened =>
  \A h \in 0..MaxHandle :
    LET r == fs_path_from_handle(handles, h)
        live == LiveWithHandle(handles, h)
    IN /\ (h # 0 /\ live = {}) => ~r.ok
       /\ h = 0 => r.ok /\ ~r.nullp /\ r.path = <<>>
       /\ (h # 0 /\ live # {}) =>
            /\ r.ok /\ ~r.nullp
            /\ \E i \in live :
                 IF handles[i].parent_handle = 0
                 THEN r.path = <<handles[i].name>>
                 ELSE \E j \in LiveWithHandle(handles, handles[i].parent_handle) :
                        r.path = <<handles[j].name, handles[i].name>>

\* C28: in every reachable state, over any number of sessions, no two live
\* entries of the table carry the same handle
C28_LiveHandlesDistinct ==
  \A i, j \in LiveSlots(handles) : handles[i].handle = handles[j].handle => i = j

\* C29: the response that ends a SendObjectInfo for a plain file is OK exactly
\* when that operation created a new file with a new table entry; the handle
\* and the parent it reports are those of the new entry; when the creation
\* fails the response is not OK
C29_OkMeansCreated ==
  [][\A d \in CreateDatasets :
       (SendObjectInfoData(d) /\ is_session_opened) =>
         LET final == resp'[1]
             new == {i \in Slots : handles'[i] # handles[i]}
             created == /\ new # {}
                        /\ handle_self_inc' = handle_self_inc + 1
                        /\ NodeAt(fs', CreatePath(handles, d)).kind = "file"
         IN /\ Len(resp') >= 1
            /\ (final.code = MTP_RESP_OK) <=> created
            /\ final.code = MTP_RESP_OK =>
                  \E i \in new : /\ handles'[i].handle = handle_self_inc'
                                  /\ final.handle = handles'[i].handle
                                  /\ final.parent = handles'[i].parent_handle]_vars

\* C30: two complete GetObject in succession on the handle of an object just
\* written, nothing in between, deliver the same bytes, and these are the
\* content of the file (rt: stage 3 after the first delivery, 5 after the
\* second; first is what the first delivered, data what the file was given)
C30_GetObjectRepeatable ==
  rt.stage = 5 => host_rx = rt.first /\ host_rx = rt.data

\* C31: a cancel request that finds no stream open closes nothing: the
\* firmware goes on, and current_file, current_handle and the handle table
\* are as they were
C31_CancelWithoutStream ==
  [][ (tud_mtp_request_cancel_cb /\ current_file = NoFile) =>
        /\ ~crashed'
        /\ UNCHANGED <<current_file, current_handle, handles, handles_used>> ]_vars

\* the path fs_path_from_handle builds from the entry in slot i
EntryPath(t, i) ==
  LET pi == EntryIndex(t, t[i].parent_handle)
  IN IF t[i].parent_handle # 0
     THEN PathOf(IF pi = -1 THEN GarbageName ELSE t[pi].name, t[i].name)
     ELSE PathOf("", t[i].name)

\* C32: while a session is open, the is_dir flag of every live entry is true
\* exactly when the object at the entry's path is a directory, so that
\* GetObjectInfo reports a folder exactly for directories
C32_IsDirMatchesFilesystem ==
  is_session_opened =>
    \A i \in LiveSlots(handles) :
      handles[i].is_dir <=> StatIsDir(fs, EntryPath(handles, i))

====
